---- MODULE Spec2Model ----
(***************************************************************************)
(* A model of pytomo3d/adjoint/adjsrc.py: the window aggregator            *)
(* (calculate_adjsrc_on_stream, adjsrc_function) and the post-processing   *)
(* of adjoint sources (zero_padding_stream, sum_adj_on_component,          *)
(* postprocess_adjsrc).                                                    *)
(*                                                                         *)
(* Conventions.  A channel id "NET.STA.LOC.CHA" is the tuple               *)
(* <<NET, STA, LOC, CHA>> and a channel code is the tuple of its letters,  *)
(* so that chan_id.split(".")[k] and channel[-1] are computed and not      *)
(* assumed.  A python dict is a function; where the code iterates a dict   *)
(* the model is given the iteration order as a sequence of keys, one of    *)
(* every possible order.  Times are integers (ticks), sample intervals are *)
(* whole numbers of ticks and int(x / dt) truncates toward zero, as        *)
(* python's int() does; divisions are exact (no floating-point rounding).  *)
(* A python exception is a record [raised |-> <exception name>].           *)
(***************************************************************************)
EXTENDS Integers, Sequences, FiniteSets, TLC

VARIABLES
    \* ---- window aggregator (adjsrc_function, calculate_adjsrc_on_stream)
    entry,              \* the function that was called
    windows,            \* argument: list of per-channel window lists
    observed,           \* argument: observed stream
    synthetic,          \* argument: synthetic stream
    apc,                \* position in the call
    widx,               \* index of the loop over windows
    channel_adj_dict,   \* channel id -> adjoint source
    channel_nwins_dict, \* channel id -> number of windows
    engine_calls,       \* the calls made to pyadjoint, with their outcome
    aresult             \* the value returned, or the exception raised

avars == <<entry, windows, observed, synthetic, apc, widx, channel_adj_dict,
           channel_nwins_dict, engine_calls, aresult>>

VARIABLES
    \* ---- zero_padding_stream
    pstream,            \* argument: the stream, padded in place
    pstream_in,         \* the stream as it was passed
    pstarttime,         \* argument: starttime
    pendtime,           \* argument: endtime
    ppc,                \* position in the call
    pidx,               \* index of the loop over the stream
    presult             \* the value returned, or the exception raised

pvars == <<pstream, pstream_in, pstarttime, pendtime, ppc, pidx, presult>>

VARIABLES
    \* ---- sum_adj_on_component
    sstream,            \* argument: the adjoint source stream
    sweights,           \* argument: weight_dict, in its iteration order
    spc,                \* position in the call
    sresult             \* the stream returned, or the exception raised

svars == <<sstream, sweights, spc, sresult>>

VARIABLES
    \* ---- postprocess_adjsrc
    adjsrcs,            \* argument: the adjoint sources, in their iteration order
    adj_starttime,      \* argument: the start time of the adjoint sources
    raw_synthetic,      \* argument: the raw synthetic stream
    event,              \* argument: the event
    sum_over_comp_flag, \* argument
    weight_dict,        \* argument: None, or the weights in iteration order
    qpc,                \* the stage the call is at
    adj_stream,         \* the stream being processed
    time_offset,        \* interp_starttime - event_time, once computed
    baz_calls,          \* the back azimuths calculate_baz has returned
    rotate_calls,       \* the outcomes of the calls of Stream.rotate
    qresult             \* the value returned, or the exception raised

qvars == <<adjsrcs, adj_starttime, raw_synthetic, event, sum_over_comp_flag, weight_dict,
           qpc, adj_stream, time_offset, baz_calls, rotate_calls, qresult>>

vars == <<avars, pvars, svars, qvars>>

None == [none |-> TRUE]

\* The outcome of a call: a value returned, or an exception raised.
Return(v) == [raised |-> "no", val |-> v]

Raise(e) == [raised |-> e, val |-> None]

Raised(r) == r.raised # "no"

\* ------------------------------------------------------------------------
\* Bounds
MaxChanLists == 4   \* per-channel window lists in one call
MaxWin == 2         \* windows in one list

\* ------------------------------------------------------------------------
\* Sequences and dicts

Last(s) == s[Len(s)]

Range(s) == {s[k] : k \in 1..Len(s)}

SeqsUpTo(S, n) == UNION {[1..k -> S] : k \in 0..n}

EmptyDict == <<>>

DictSet(d, k, v) == [x \in (DOMAIN d) \cup {k} |-> IF x = k THEN v ELSE d[x]]

\* ------------------------------------------------------------------------
\* Channel ids and traces

ChanId(net, sta, loc, cha) == <<net, sta, loc, cha>>

BH(c) == <<"B", "H", c>>

MX(c) == <<"M", "X", c>>

\* obspy's Trace.id: network.station.location.channel
TraceId(tr) == <<tr.network, tr.station, tr.location, tr.channel>>

\* Stream.select(id=...): the traces with that id, in stream order
SelectId(stream, id) == SelectSeq(stream, LAMBDA tr : TraceId(tr) = id)

\* Stream.select(channel="*<c>"): the traces whose channel code ends in c
SelectComp(stream, c) == SelectSeq(stream, LAMBDA tr : Last(tr.channel) = c)

\* ------------------------------------------------------------------------
\* The window aggregator

\* A pyflex window: the fields the code reads.
Window(id, b, e) == [channel_id |-> id, relative_starttime |-> b, relative_endtime |-> e]

\* _stats_channel_window: the loop from list k on, with the dict built so far.
\* chan_win[0] of an empty list raises IndexError.
RECURSIVE StatsFrom(_, _, _)
StatsFrom(wins, k, d) ==
    IF k > Len(wins) THEN Return(d)
    ELSE IF Len(wins[k]) = 0 THEN Raise("IndexError")
    ELSE StatsFrom(wins, k + 1, DictSet(d, wins[k][1].channel_id, Len(wins[k])))

_stats_channel_window(wins) == StatsFrom(wins, 1, EmptyDict)

\* _clean_adj_results: both dicts over the keys of chan_adj_dict;
\* chan_nwin_dict[chan_id] of a missing key raises KeyError.
_clean_adj_results(chan_adj_dict, chan_nwin_dict) ==
    IF \E k \in DOMAIN chan_adj_dict : k \notin DOMAIN chan_nwin_dict
    THEN Raise("KeyError")
    ELSE Return(<<[k \in DOMAIN chan_adj_dict |-> chan_adj_dict[k]],
                  [k \in DOMAIN chan_adj_dict |-> chan_nwin_dict[k]]>>)

\* pyadjoint.calculate_adjoint_source, when it does not raise: the adjoint
\* source of one observed/synthetic pair over the windows it was given.
AdjSrcType == "multitaper_misfit"

Measure(obs, syn, wins) ==
    [adj_src_type |-> AdjSrcType, network |-> obs.network, station |-> obs.station,
     component |-> Last(obs.channel), observed |-> TraceId(obs),
     synthetic |-> TraceId(syn), window |-> wins]

\* calculate_adjsrc_on_trace: windows must have shape (*, 2); whatever the
\* engine raises is swallowed and None is returned.
calculate_adjsrc_on_trace(obs, syn, wins, engine_raises) ==
    IF Len(wins) = 0 \/ \E k \in 1..Len(wins) : Len(wins[k]) # 2
    THEN Raise("ValueError")
    ELSE IF engine_raises THEN Return(None)
    ELSE Return(Measure(obs, syn, wins))

\* the loop "for _win in chan_win: wins.append([win_b, win_e])"
ReadWindows(chan_win) ==
    [k \in 1..Len(chan_win) |->
        <<chan_win[k].relative_starttime, chan_win[k].relative_endtime>>]

\* (a variant that stores whatever calculate_adjsrc_on_trace returned)
StoreAdjUnchecked(dict, obsd_id, adjsrc) == DictSet(dict, obsd_id, adjsrc)

\* the end of the loop body of calculate_adjsrc_on_stream
StoreAdj(dict, obsd_id, adjsrc) ==
    IF adjsrc = None THEN dict ELSE DictSet(dict, obsd_id, adjsrc)

\* Whether the loop body reaches the engine for this list.
ReachesEngine(chan_win, obsd, synt) ==
    /\ Len(chan_win) > 0
    /\ Len(SelectId(obsd, chan_win[1].channel_id)) > 0
    /\ Len(SelectComp(synt, Last(chan_win[1].channel_id[4]))) > 0

\* One pass of the loop body of calculate_adjsrc_on_stream.
StreamStep(dict, chan_win, obsd, synt, engine_raises) ==
    IF Len(chan_win) = 0 THEN Return(dict)
    ELSE LET obsd_id == chan_win[1].channel_id
             obs_sel == SelectId(obsd, obsd_id)
         IN IF Len(obs_sel) = 0 THEN Raise("ValueError")
            ELSE LET obs == obs_sel[1]
                     syn_sel == SelectComp(synt, Last(obs.channel))
                 IN IF Len(syn_sel) = 0 THEN Raise("ValueError")
                    ELSE LET r == calculate_adjsrc_on_trace(
                                      obs, syn_sel[1], ReadWindows(chan_win),
                                      engine_raises)
                         IN IF Raised(r) THEN r
                            ELSE Return(StoreAdj(dict, obsd_id, r.val))

\* ---- the parts of the state a call of another function leaves alone

IdleAgg ==
    /\ entry = "none" /\ windows = <<>> /\ observed = <<>> /\ synthetic = <<>>
    /\ apc = "idle" /\ widx = 0 /\ channel_adj_dict = EmptyDict
    /\ channel_nwins_dict = EmptyDict /\ engine_calls = <<>> /\ aresult = Return(None)

IdlePad ==
    /\ pstream = <<>> /\ pstream_in = <<>> /\ pstarttime = 0 /\ pendtime = 0
    /\ ppc = "idle" /\ pidx = 0 /\ presult = Return(None)

IdleSum ==
    /\ sstream = <<>> /\ sweights = <<>> /\ spc = "idle" /\ sresult = Return(None)

IdlePost ==
    /\ adjsrcs = <<>> /\ adj_starttime = 0 /\ raw_synthetic = <<>> /\ event = None
    /\ sum_over_comp_flag = FALSE /\ weight_dict = <<>> /\ qpc = "idle"
    /\ adj_stream = <<>> /\ time_offset = 0 /\ baz_calls = <<>> /\ rotate_calls = <<>>
    /\ qresult = Return(None)

\* ---- the inputs of the aggregator

Net == "II"

Sta == "AAK"

AggChannels == {ChanId(Net, Sta, "00", BH(c)) : c \in {"Z", "R", "T"}}

ObsTrace(id) == [network |-> id[1], station |-> id[2], location |-> id[3], channel |-> id[4]]

\* The observed stream: every channel, or every channel but BHR.
ObservedStreams ==
    {<<ObsTrace(ChanId(Net, Sta, "00", BH("Z"))), ObsTrace(ChanId(Net, Sta, "00", BH("R"))),
       ObsTrace(ChanId(Net, Sta, "00", BH("T")))>>,
     <<ObsTrace(ChanId(Net, Sta, "00", BH("Z"))), ObsTrace(ChanId(Net, Sta, "00", BH("T")))>>}

\* The synthetic stream, with another location and band code: every
\* component, or every component but T.
SyntheticStreams ==
    {<<ObsTrace(ChanId(Net, Sta, "S3", MX("Z"))), ObsTrace(ChanId(Net, Sta, "S3", MX("R"))),
       ObsTrace(ChanId(Net, Sta, "S3", MX("T")))>>,
     <<ObsTrace(ChanId(Net, Sta, "S3", MX("Z"))), ObsTrace(ChanId(Net, Sta, "S3", MX("R")))>>}

\* The windows of one channel: n windows [k, k+1) of that channel.
ChanWindows(id, n) == [k \in 1..n |-> Window(id, k, k + 1)]

WindowLists == {<<>>} \cup {ChanWindows(id, n) : id \in AggChannels, n \in 1..MaxWin}

\* Windows grouped by channel: one list per channel, possibly empty.
WindowCollections ==
    {w \in SeqsUpTo(WindowLists, MaxChanLists) :
        \A j, k \in 1..Len(w) :
            (j # k /\ Len(w[j]) > 0 /\ Len(w[k]) > 0)
                => w[j][1].channel_id # w[k][1].channel_id}

Pending == [raised |-> "pending", val |-> None]

InitAgg ==
    /\ entry \in {"adjsrc_function", "calculate_adjsrc_on_stream"}
    /\ windows \in WindowCollections
    /\ observed \in ObservedStreams
    /\ synthetic \in SyntheticStreams
    /\ apc = "call"
    /\ widx = 0
    /\ channel_adj_dict = EmptyDict
    /\ channel_nwins_dict = EmptyDict
    /\ engine_calls = <<>>
    /\ aresult = Pending

\* adjsrc_function up to its call of calculate_adjsrc_on_stream: nothing to
\* do without windows, else the window statistics.
CallAdjsrcFunction ==
    /\ entry = "adjsrc_function" /\ apc = "call"
    /\ IF Len(windows) = 0
       THEN /\ aresult' = Return(None)
            /\ apc' = "done"
            /\ UNCHANGED <<widx, channel_nwins_dict>>
       ELSE LET st == _stats_channel_window(windows)
            IN IF Raised(st)
               THEN /\ aresult' = st
                    /\ apc' = "done"
                    /\ UNCHANGED <<widx, channel_nwins_dict>>
               ELSE /\ channel_nwins_dict' = st.val
                    /\ widx' = 1
                    /\ apc' = "loop"
                    /\ UNCHANGED aresult
    /\ UNCHANGED <<entry, windows, observed, synthetic, channel_adj_dict, engine_calls>>
    /\ UNCHANGED <<pvars, svars, qvars>>

\* calculate_adjsrc_on_stream called on its own.
CallCalculateOnStream ==
    /\ entry = "calculate_adjsrc_on_stream" /\ apc = "call"
    /\ widx' = 1
    /\ apc' = "loop"
    /\ UNCHANGED <<entry, windows, observed, synthetic, channel_adj_dict,
                   channel_nwins_dict, engine_calls, aresult>>
    /\ UNCHANGED <<pvars, svars, qvars>>

\* One pass of "for chan_win in windows"; the engine raises or not.
LoopChannel ==
    /\ apc = "loop" /\ widx <= Len(windows)
    /\ \E engine_raises \in BOOLEAN :
         LET chan_win == windows[widx]
             r == StreamStep(channel_adj_dict, chan_win, observed, synthetic, engine_raises)
         IN /\ engine_calls' =
                  IF ReachesEngine(chan_win, observed, synthetic)
                  THEN Append(engine_calls, [channel_id |-> chan_win[1].channel_id,
                                             list |-> widx, raised |-> engine_raises])
                  ELSE engine_calls
            /\ IF Raised(r)
               THEN /\ aresult' = r
                    /\ apc' = "done"
                    /\ UNCHANGED <<widx, channel_adj_dict>>
               ELSE /\ channel_adj_dict' = r.val
                    /\ widx' = widx + 1
                    /\ UNCHANGED <<apc, aresult>>
    /\ UNCHANGED <<entry, windows, observed, synthetic, channel_nwins_dict>>
    /\ UNCHANGED <<pvars, svars, qvars>>

\* The end of the loop: calculate_adjsrc_on_stream returns its dict, which
\* adjsrc_function hands to _clean_adj_results.
ReturnAgg ==
    /\ apc = "loop" /\ widx > Len(windows)
    /\ aresult' = IF entry = "calculate_adjsrc_on_stream"
                  THEN Return(channel_adj_dict)
                  ELSE _clean_adj_results(channel_adj_dict, channel_nwins_dict)
    /\ apc' = "done"
    /\ UNCHANGED <<entry, windows, observed, synthetic, widx, channel_adj_dict,
                   channel_nwins_dict, engine_calls>>
    /\ UNCHANGED <<pvars, svars, qvars>>

NextAgg ==
    CallAdjsrcFunction \/ CallCalculateOnStream \/ LoopChannel \/ ReturnAgg

StartAgg == InitAgg /\ IdlePad /\ IdleSum /\ IdlePost

SpecAgg == StartAgg /\ [][NextAgg]_vars

\* ---- properties of the aggregator

\* Every non-empty list's channel has its observed and its synthetic trace.
AggAccepts ==
    \A k \in 1..Len(windows) :
        Len(windows[k]) > 0 => ReachesEngine(windows[k], observed, synthetic)

\* The channels that had at least one window and an engine call that did not raise.
MeasuredChannels == {engine_calls[k].channel_id : k \in {j \in 1..Len(engine_calls) : ~engine_calls[j].raised}}

\* The last successful engine call on a channel.
LastMeasured(id) ==
    CHOOSE k \in 1..Len(engine_calls) :
        /\ engine_calls[k].channel_id = id /\ ~engine_calls[k].raised
        /\ \A j \in (k + 1)..Len(engine_calls) :
               ~(engine_calls[j].channel_id = id /\ ~engine_calls[j].raised)

\* What the engine returned for the list of call k.
MeasuredBy(k) ==
    LET chan_win == windows[engine_calls[k].list]
        obs == SelectId(observed, chan_win[1].channel_id)[1]
    IN Measure(obs, SelectComp(synthetic, Last(obs.channel))[1], ReadWindows(chan_win))

\* C1: with every non-empty list's channel present in both streams,
\* calculate_adjsrc_on_stream never raises; after every pass of its loop the
\* dict's keys are exactly the channels with a window list whose engine call
\* did not raise, each holding what the engine returned for it (a failure on
\* another channel neither removes nor changes it), every non-empty list
\* passed so far has reached the engine, and the dict is what is returned.
C1_PartialFailureIsolation ==
    (entry = "calculate_adjsrc_on_stream" /\ AggAccepts) =>
        /\ aresult.raised \in {"pending", "no"}
        /\ DOMAIN channel_adj_dict = MeasuredChannels
        /\ \A id \in DOMAIN channel_adj_dict :
               channel_adj_dict[id] = MeasuredBy(LastMeasured(id))
        /\ apc = "loop" =>
               {engine_calls[k].list : k \in 1..Len(engine_calls)}
                   = {k \in 1..(widx - 1) : Len(windows[k]) > 0}
        /\ apc = "done" =>
               /\ aresult.val = channel_adj_dict
               /\ {engine_calls[k].list : k \in 1..Len(engine_calls)}
                      = {k \in 1..Len(windows) : Len(windows[k]) > 0}

\* C1 witness: the engine raised for BHR and succeeded for BHZ and BHT, one
\* list was empty, and the call returned exactly BHZ and BHT.
C1_Witness ==
    /\ entry = "calculate_adjsrc_on_stream" /\ AggAccepts
    /\ apc = "done" /\ aresult.raised = "no"
    /\ \E k \in 1..Len(windows) : Len(windows[k]) = 0
    /\ \E k \in 1..Len(engine_calls) :
          engine_calls[k].raised /\ engine_calls[k].channel_id = ChanId(Net, Sta, "00", BH("R"))
    /\ DOMAIN aresult.val = {ChanId(Net, Sta, "00", BH("Z")), ChanId(Net, Sta, "00", BH("T"))}

\* C7 (as claimed): on a non-empty collection of window lists that the
\* aggregator accepts, empty lists included, adjsrc_function does not raise
\* and returns two mappings over the same keys, the measured channels.
C7_StatsNeverFails ==
    (entry = "adjsrc_function" /\ AggAccepts /\ Len(windows) > 0 /\ apc = "done") =>
        /\ aresult.raised = "no"
        /\ DOMAIN aresult.val[1] = MeasuredChannels
        /\ DOMAIN aresult.val[2] = MeasuredChannels

\* ------------------------------------------------------------------------
\* zero_padding_stream

MaxT == 6           \* times are 0..MaxT
PadStart == 2       \* the starttime asked for
MaxDt == 2          \* sample intervals are 1..MaxDt
MaxNpts == 2        \* samples in a trace before padding
MaxTraces == 2      \* traces in the stream

\* python's int(a / b) for b > 0: truncation toward zero
PyInt(a, b) == IF a >= 0 THEN a \div b ELSE -((-a) \div b)

Max(a, b) == IF a >= b THEN a ELSE b

Zeros(n) == [k \in 1..n |-> 0]

\* obspy's Stats: npts is len(data); endtime is the time of the last sample
Npts(tr) == Len(tr.data)

Endtime(tr) == IF Npts(tr) = 0 THEN tr.starttime ELSE tr.starttime + (Npts(tr) - 1) * tr.delta

\* (variants that do not add the extra sample)
NptsBeforeNoExtra(tr, starttime) == Max(PyInt(tr.starttime - starttime, tr.delta), 0)

NptsAfterNoExtra(tr, endtime) == Max(PyInt(endtime - Endtime(tr), tr.delta), 0)

NptsBefore(tr, starttime) == Max(PyInt(tr.starttime - starttime, tr.delta) + 1, 0)

NptsAfter(tr, endtime) == Max(PyInt(endtime - Endtime(tr), tr.delta) + 1, 0)

\* (a variant that leaves stats.starttime as it was)
PadTraceKeepStart(tr, starttime, endtime) ==
    LET npts_before == NptsBefore(tr, starttime)
        npts_after == NptsAfter(tr, endtime)
    IN [tr EXCEPT !.data = Zeros(npts_before) \o tr.data \o Zeros(npts_after)]

\* The body of "for tr in stream".
PadTrace(tr, starttime, endtime) ==
    LET npts_before == NptsBefore(tr, starttime)
        npts_after == NptsAfter(tr, endtime)
        padding_starttime == tr.starttime - npts_before * tr.delta
        padding_array ==
            [k \in 1..(npts_before + Npts(tr) + npts_after) |->
                IF k > npts_before /\ k <= npts_before + Npts(tr)
                THEN tr.data[k - npts_before] ELSE 0]
    IN [tr EXCEPT !.data = padding_array, !.starttime = padding_starttime]

\* zero_padding_stream as a whole: the stream it leaves, or ValueError.
zero_padding_stream(stream, starttime, endtime) ==
    IF starttime > endtime THEN Raise("ValueError")
    ELSE Return([k \in 1..Len(stream) |-> PadTrace(stream[k], starttime, endtime)])

\* ---- the inputs of zero_padding_stream

NewTrace(id, starttime, delta, data) ==
    [network |-> id[1], station |-> id[2], location |-> id[3], channel |-> id[4],
     starttime |-> starttime, delta |-> delta, data |-> data]

\* n samples, none of them zero and no two equal
Samples(n) == [k \in 1..n |-> k]

\* Streams of 1..MaxTraces traces that share their sample interval.
PadStreams ==
    UNION {[1..n -> {NewTrace(ChanId(Net, Sta, "00", BH("Z")), t, dt, Samples(np)) :
                        t \in 0..MaxT, np \in 1..MaxNpts}] :
           n \in 1..MaxTraces, dt \in 1..MaxDt}

InitPad ==
    /\ pstream_in \in PadStreams
    /\ pstream = pstream_in
    /\ pstarttime = PadStart
    /\ pendtime \in (PadStart - 1)..MaxT
    /\ ppc = "call"
    /\ pidx = 0
    /\ presult = Pending

\* The range check at the top of zero_padding_stream.
PadCall ==
    /\ ppc = "call"
    /\ IF pstarttime > pendtime
       THEN /\ presult' = Raise("ValueError")
            /\ ppc' = "done"
            /\ UNCHANGED pidx
       ELSE /\ ppc' = "loop"
            /\ pidx' = 1
            /\ UNCHANGED presult
    /\ UNCHANGED <<pstream, pstream_in, pstarttime, pendtime>>
    /\ UNCHANGED <<avars, svars, qvars>>

\* One pass of "for tr in stream": the trace is padded in place.
PadNextTrace ==
    /\ ppc = "loop" /\ pidx <= Len(pstream)
    /\ pstream' = [pstream EXCEPT ![pidx] = PadTrace(pstream[pidx], pstarttime, pendtime)]
    /\ pidx' = pidx + 1
    /\ UNCHANGED <<pstream_in, pstarttime, pendtime, ppc, presult>>
    /\ UNCHANGED <<avars, svars, qvars>>

PadReturn ==
    /\ ppc = "loop" /\ pidx > Len(pstream)
    /\ presult' = Return(None)
    /\ ppc' = "done"
    /\ UNCHANGED <<pstream, pstream_in, pstarttime, pendtime, pidx>>
    /\ UNCHANGED <<avars, svars, qvars>>

NextPad ==
    PadCall \/ PadNextTrace \/ PadReturn

StartPad == InitPad /\ IdleAgg /\ IdleSum /\ IdlePost

SpecPad == StartPad /\ [][NextPad]_vars

\* ---- properties of zero_padding_stream

\* The traces the loop has padded so far.
Padded == IF presult.raised = "ValueError" THEN {} ELSE 1..(pidx - 1)

\* new is old with b zero samples put before it and a after it.
IsPaddingOf(new, old, b, a) ==
    /\ b >= 0 /\ a >= 0
    /\ Len(new.data) = b + Npts(old) + a
    /\ \A k \in 1..Len(new.data) :
          new.data[k] = IF k > b /\ k <= b + Npts(old) THEN old.data[k - b] ELSE 0
    /\ new.starttime = old.starttime - b * old.delta
    /\ new = [old EXCEPT !.data = new.data, !.starttime = new.starttime]

\* The trace covers exactly [starttime, endtime): it starts at starttime and
\* its npts samples of dt each end at endtime.
ExactlyCovers(tr, starttime, endtime) ==
    /\ tr.starttime = starttime
    /\ tr.starttime + Npts(tr) * tr.delta = endtime

\* The samples of the trace lie within [starttime, endtime).
LiesWithin(tr, starttime, endtime) ==
    /\ tr.starttime >= starttime
    /\ Endtime(tr) < endtime

\* C4 (as claimed): a trace that already covers exactly [starttime, endtime)
\* keeps its samples and its start time.
C4_PaddingIdempotent ==
    \A k \in Padded :
        ExactlyCovers(pstream_in[k], pstarttime, pendtime) =>
            /\ pstream[k].data = pstream_in[k].data
            /\ pstream[k].starttime = pstream_in[k].starttime

\* C4 (amended): a trace that already covers exactly [starttime, endtime) gets
\* one zero sample before it and two after it, its samples unchanged between
\* them, and its start time moves one sample interval earlier.
C4_ExactCoverStillPadded ==
    \A k \in Padded :
        ExactlyCovers(pstream_in[k], pstarttime, pendtime) =>
            /\ IsPaddingOf(pstream[k], pstream_in[k], 1, 2)
            /\ pstream[k].starttime = pstarttime - pstream_in[k].delta

\* C4 witness: a trace covering exactly [starttime, endtime) has been padded.
C4_Witness ==
    \E k \in Padded :
        /\ ExactlyCovers(pstream_in[k], pstarttime, pendtime)
        /\ Npts(pstream_in[k]) = 2 /\ pstream_in[k].delta = 2
        /\ pstream[k].data = <<0, 1, 2, 0, 0>>

\* C5 (as claimed): a trace within [starttime, endtime) has, once padded,
\* floor((endtime - starttime) / dt) samples, give or take one.
C5_CountWithinOne ==
    \A k \in Padded :
        LiesWithin(pstream_in[k], pstarttime, pendtime) =>
            LET want == (pendtime - pstarttime) \div pstream_in[k].delta
            IN Npts(pstream[k]) \in (want - 1)..(want + 1)

\* C5 (amended): a trace within [starttime, endtime) has, once padded,
\* floor((endtime - starttime) / dt) samples plus two or plus three.
C5_CountTwoOrThreeMore ==
    \A k \in Padded :
        LiesWithin(pstream_in[k], pstarttime, pendtime) =>
            LET want == (pendtime - pstarttime) \div pstream_in[k].delta
            IN Npts(pstream[k]) \in {want + 2, want + 3}

\* C5 witness: two traces within [starttime, endtime) have been padded, one
\* to two samples more than floor((endtime - starttime) / dt), one to three.
C5_Witness ==
    /\ ppc = "done"
    /\ \E j, k \in Padded :
          /\ LiesWithin(pstream_in[j], pstarttime, pendtime)
          /\ LiesWithin(pstream_in[k], pstarttime, pendtime)
          /\ Npts(pstream[j]) = (pendtime - pstarttime) \div pstream_in[j].delta + 2
          /\ Npts(pstream[k]) = (pendtime - pstarttime) \div pstream_in[k].delta + 3

\* C9: zero_padding_stream only adds padding: every padded trace is the
\* trace it was with b >= 0 zero samples before and a >= 0 after, its start
\* time b sample intervals earlier; it starts at or before starttime and its
\* last sample is at or after endtime; the traces not yet reached are as
\* they were passed.
C9_OnlyAddsPadding ==
    /\ \A k \in Padded :
          /\ \E b \in 0..Npts(pstream[k]) :
                IsPaddingOf(pstream[k], pstream_in[k], b,
                            Npts(pstream[k]) - Npts(pstream_in[k]) - b)
          /\ pstream[k].starttime <= pstarttime
          /\ Endtime(pstream[k]) >= pendtime
    /\ \A k \in (1..Len(pstream)) \ Padded : pstream[k] = pstream_in[k]

\* C9 witness: the call has returned having padded a trace that began before
\* starttime (no sample added before it, its start time kept) and a trace
\* that needed more than one sample on each side.
C9_Witness ==
    /\ ppc = "done" /\ presult.raised = "no"
    /\ \E j, k \in Padded :
          /\ pstream_in[j].starttime < pstarttime
          /\ pstream[j].starttime = pstream_in[j].starttime
          /\ pstream[j].data[1] = pstream_in[j].data[1]
          /\ pstream_in[k].starttime > pstarttime /\ Endtime(pstream_in[k]) < pendtime
          /\ Npts(pstream[k]) > Npts(pstream_in[k]) + 2
          /\ pstream[k].data[1] = 0 /\ pstream[k].data[2] = 0

\* ------------------------------------------------------------------------
\* sum_adj_on_component
\*
\* The weight dict is a sequence of [comp, weights], weights a sequence of
\* [chan_id, weight]: the dicts in the order iteritems() yields them.
\* Stream.select() returns the traces of the stream themselves, not copies,
\* so the traces are objects named by their place in adj_stream: comp_tr is
\* such a place (0: not assigned yet) and new_stream a list of places.

Scale(w, data) == [k \in 1..Len(data) |-> w * data[k]]

Plus(a, b) == [k \in 1..Len(a) |-> a[k] + b[k]]

\* adj_stream.select(id=chan_id)[0]: the place of the first trace with that
\* id, 0 when there is none (IndexError)
FirstWithId(stream, id) ==
    IF \E k \in 1..Len(stream) : TraceId(stream[k]) = id
    THEN CHOOSE k \in 1..Len(stream) :
            /\ TraceId(stream[k]) = id
            /\ \A j \in 1..(k - 1) : TraceId(stream[j]) # id
    ELSE 0

\* The body of "for chan_id, chan_weight in comp_weights.iteritems()".
\* st = [stream, comp_tr, done_comps, new_stream, raised]
SumChannel(st, comp, chan_id, chan_weight) ==
    LET at == FirstWithId(st.stream, chan_id)
    IN IF at = 0 THEN [st EXCEPT !.raised = "IndexError"]
       ELSE IF comp \notin st.done_comps
       THEN [st EXCEPT !.done_comps = st.done_comps \cup {comp},
                       !.comp_tr = at,
                       !.stream[at].data = Scale(chan_weight, st.stream[at].data),
                       !.stream[at].location = ""]
       ELSE IF Len(st.stream[at].data) # Len(st.stream[st.comp_tr].data)
       THEN [st EXCEPT !.raised = "ValueError"]
       ELSE [st EXCEPT !.stream[st.comp_tr].data =
                          Plus(st.stream[st.comp_tr].data,
                               Scale(chan_weight, st.stream[at].data))]

\* The inner loop from entry k on.
RECURSIVE SumChannelsFrom(_, _, _, _)
SumChannelsFrom(st, comp, comp_weights, k) ==
    IF st.raised # "no" \/ k > Len(comp_weights) THEN st
    ELSE SumChannelsFrom(SumChannel(st, comp, comp_weights[k].chan_id,
                                    comp_weights[k].weight),
                         comp, comp_weights, k + 1)

\* The body of the outer loop: the inner loop, then new_stream.append(comp_tr);
\* comp_tr read before any assignment raises UnboundLocalError.
SumComponent(st, comp, comp_weights) ==
    LET after == SumChannelsFrom(st, comp, comp_weights, 1)
    IN IF after.raised # "no" THEN after
       ELSE IF after.comp_tr = 0 THEN [after EXCEPT !.raised = "UnboundLocalError"]
       ELSE [after EXCEPT !.new_stream = Append(after.new_stream, after.comp_tr)]

\* The outer loop from entry k on.
RECURSIVE SumComponentsFrom(_, _, _)
SumComponentsFrom(st, weights, k) ==
    IF st.raised # "no" \/ k > Len(weights) THEN st
    ELSE SumComponentsFrom(SumComponent(st, weights[k].comp, weights[k].weights),
                           weights, k + 1)

\* sum_adj_on_component: the stream returned (the traces of new_stream as
\* they are when the function returns), or the exception.
sum_adj_on_component(stream, weights) ==
    LET st == SumComponentsFrom([stream |-> stream, comp_tr |-> 0, done_comps |-> {},
                                 new_stream |-> <<>>, raised |-> "no"], weights, 1)
    IN IF st.raised # "no" THEN Raise(st.raised)
       ELSE Return([k \in 1..Len(st.new_stream) |-> st.stream[st.new_stream[k]]])

\* ---- the inputs of sum_adj_on_component

MaxSumTraces == 3   \* traces in the stream
MaxSub == 2         \* channels in the weights of one component
MaxWeight == 2      \* weights are 1..MaxWeight

\* Sequences of 1..n elements of S, no element twice.
Arrangements(S, n) ==
    {q \in UNION {[1..k -> S] : k \in 1..n} : \A i, j \in 1..Len(q) : i # j => q[i] # q[j]}

\* The channels of a station with three vertical instruments (one of them
\* with an empty location code) and one radial.
SumChannels ==
    {ChanId(Net, Sta, "00", BH("Z")), ChanId(Net, Sta, "10", BH("Z")),
     ChanId(Net, Sta, "", BH("Z")), ChanId(Net, Sta, "00", BH("R"))}

SumData == {<<2, 2, 2>>, <<0, 0, 0>>}

SumStreams ==
    {[k \in 1..Len(ids) |-> NewTrace(ids[k], 0, 1, data[k])] :
        <<ids, data>> \in {<<i, d>> \in Arrangements(SumChannels, MaxSumTraces)
                                        \X SeqsUpTo(SumData, MaxSumTraces) : Len(i) = Len(d)}}

\* The weights of component c: 1..MaxSub of its channels, each with a weight.
CompWeights(c) ==
    {[k \in 1..Len(ids) |-> [chan_id |-> ids[k], weight |-> w[k]]] :
        <<ids, w>> \in {<<i, x>> \in Arrangements({id \in SumChannels : Last(id[4]) = c}, MaxSub)
                                      \X SeqsUpTo(1..MaxWeight, MaxSub) : Len(i) = Len(x)}}

\* Weight dicts over the components Z and R, in either order.
WeightDicts ==
    {<<>>}
    \cup {<<[comp |-> c, weights |-> w]>> : <<c, w>> \in
            ({"Z"} \X CompWeights("Z")) \cup ({"R"} \X CompWeights("R"))}
    \cup {<<[comp |-> "Z", weights |-> wz], [comp |-> "R", weights |-> wr]>> :
            <<wz, wr>> \in CompWeights("Z") \X CompWeights("R")}
    \cup {<<[comp |-> "R", weights |-> wr], [comp |-> "Z", weights |-> wz]>> :
            <<wz, wr>> \in CompWeights("Z") \X CompWeights("R")}

InitSum ==
    /\ sstream \in SumStreams
    /\ sweights \in WeightDicts
    /\ spc = "call"
    /\ sresult = Pending

CallSum ==
    /\ spc = "call"
    /\ sresult' = sum_adj_on_component(sstream, sweights)
    /\ spc' = "done"
    /\ UNCHANGED <<sstream, sweights>>
    /\ UNCHANGED <<avars, pvars, qvars>>

NextSum ==
    CallSum

StartSum == InitSum /\ IdleAgg /\ IdlePad /\ IdlePost

SpecSum == StartSum /\ [][NextSum]_vars

\* ---- properties of sum_adj_on_component

\* Every channel the weights name is in the stream.
AllWeightedPresent ==
    \A k \in 1..Len(sweights) : \A j \in 1..Len(sweights[k].weights) :
        FirstWithId(sstream, sweights[k].weights[j].chan_id) # 0

\* The weighted sum of the samples, as passed, of the channels of comp_weights.
RECURSIVE WeightedSum(_, _)
WeightedSum(comp_weights, k) ==
    LET tr == sstream[FirstWithId(sstream, comp_weights[k].chan_id)]
        term == Scale(comp_weights[k].weight, tr.data)
    IN IF k = 1 THEN term ELSE Plus(WeightedSum(comp_weights, k - 1), term)

\* C3 (as claimed): when every channel the weights name is in the stream,
\* sum_adj_on_component returns one trace per component of the weights, of
\* that component, its samples the weighted sum of the samples of the
\* component's channels and its location code empty.
C3_WeightedSum ==
    (spc = "done" /\ AllWeightedPresent) =>
        /\ sresult.raised = "no"
        /\ Len(sresult.val) = Len(sweights)
        /\ \A k \in 1..Len(sweights) :
              /\ Last(sresult.val[k].channel) = sweights[k].comp
              /\ sresult.val[k].location = ""
              /\ sresult.val[k].data = WeightedSum(sweights[k].weights, Len(sweights[k].weights))

\* ------------------------------------------------------------------------
\* postprocess_adjsrc

\* pyadjoint's AdjointSource(adj_src_type, misfit, dt, min_period, max_period,
\* component): adjoint_source, network and station are None until set.
AdjointSource(adj_src_type, misfit, dt, minp, maxp, component) ==
    [adj_src_type |-> adj_src_type, misfit |-> misfit, dt |-> dt, min_period |-> minp,
     max_period |-> maxp, component |-> component, adjoint_source |-> None,
     network |-> None, station |-> None]

\* chan_id.split(".")[-1] is the channel code, chan_id.split(".")[2] the location
_convert_adj_to_trace(adj, starttime, chan_id) ==
    [network |-> adj.network, station |-> adj.station, location |-> chan_id[3],
     channel |-> chan_id[Len(chan_id)], starttime |-> starttime, delta |-> adj.dt,
     data |-> adj.adjoint_source]

_convert_trace_to_adj(tr, adj) ==
    [adj EXCEPT !.dt = tr.delta, !.component = Last(tr.channel),
                !.adjoint_source = tr.data, !.station = tr.station,
                !.network = tr.network]

\* origin = event.preferred_origin() or event.origins[0]; origin.time
EventTime(ev) ==
    IF ev.preferred_origin # None THEN ev.preferred_origin.time ELSE ev.origins[1].time

\* (a variant that subtracts the other way round)
TimeOffsetReversed(interp_starttime, event_time) == event_time - interp_starttime

TimeOffset(interp_starttime, event_time) == interp_starttime - event_time

\* interp_endtime = interp_starttime + interp_delta * interp_npts
InterpEndtime(ref) == ref.starttime + ref.delta * Npts(ref)

\* obspy's Trace.interpolate onto npts samples of interval delta from
\* starttime: ValueError when that span is not within the trace.  The
\* interpolation kernel is obspy's; here each new sample takes the value of
\* the trace's sample at or just before its time.
Interpolate(tr, delta, starttime, npts) ==
    IF starttime < tr.starttime \/ starttime > Endtime(tr) THEN Raise("ValueError")
    ELSE IF starttime + delta * (npts - 1) > Endtime(tr) THEN Raise("ValueError")
    ELSE Return([tr EXCEPT !.starttime = starttime, !.delta = delta,
                           !.data = [k \in 1..npts |->
                               tr.data[((starttime + (k - 1) * delta - tr.starttime)
                                           \div tr.delta) + 1]]])

InterpolateStream(stream, delta, starttime, npts) ==
    IF \E k \in 1..Len(stream) : Raised(Interpolate(stream[k], delta, starttime, npts))
    THEN Raise("ValueError")
    ELSE Return([k \in 1..Len(stream) |-> Interpolate(stream[k], delta, starttime, npts).val])

\* (a variant that ignores a component that is not in the list)
ListDiscard(list, x) == Return(SelectSeq(list, LAMBDA y : y # x))

\* list.remove(x): the list without its first x; ValueError when x is not in it
ListRemove(list, x) ==
    IF x \notin Range(list) THEN Raise("ValueError")
    ELSE LET at == CHOOSE k \in 1..Len(list) :
                       list[k] = x /\ \A j \in 1..(k - 1) : list[j] # x
         IN Return(SubSeq(list, 1, at - 1) \o SubSeq(list, at + 1, Len(list)))

\* "for tr in adj_stream: missinglist.remove(tr.stats.channel[-1])" from trace k on
RECURSIVE MissingFrom(_, _, _)
MissingFrom(missinglist, stream, k) ==
    IF k > Len(stream) THEN Return(missinglist)
    ELSE LET r == ListRemove(missinglist, Last(stream[k].channel))
         IN IF Raised(r) THEN r ELSE MissingFrom(r.val, stream, k + 1)

\* zero_adj: a copy of the template, zero filled, of that component
ZeroTrace(tr_template, component) ==
    [tr_template EXCEPT
        !.data = Zeros(Npts(tr_template)),
        !.channel = SubSeq(tr_template.channel, 1,
                           IF Len(tr_template.channel) < 2 THEN Len(tr_template.channel) ELSE 2)
                    \o <<component>>]

\* (a variant that zero fills the template itself instead of a copy of it)
AppendZeroTracesNoCopy(stream, missinglist) ==
    IF Len(missinglist) = 0 THEN stream
    ELSE [stream EXCEPT ![1].data = Zeros(Npts(stream[1]))]
         \o [k \in 1..Len(missinglist) |-> ZeroTrace(stream[1], missinglist[k])]

\* (a variant that appends nothing)
AppendZeroTracesNone(stream, missinglist) == stream

\* "for component in missinglist: ... adj_stream.append(zero_adj)"
AppendZeroTraces(stream, missinglist) ==
    stream \o [k \in 1..Len(missinglist) |-> ZeroTrace(stream[1], missinglist[k])]

\* The missing-component step: the stream it leaves, IndexError on an empty
\* stream (adj_stream[0]), ValueError from missinglist.remove.
AddMissingComponents(stream) ==
    IF Len(stream) = 0 THEN Raise("IndexError")
    ELSE LET missing == MissingFrom(<<"Z", "R", "T">>, stream, 1)
         IN IF Raised(missing) THEN missing
            ELSE Return(AppendZeroTraces(stream, missing.val))

Components(stream) == [k \in 1..Len(stream) |-> Last(stream[k].channel)]

\* Back azimuths are quarter turns, whose sine and cosine are whole numbers.
BackAzimuths == {0, 90, 180, 270}

CosDeg(b) == CASE b = 0 -> 1 [] b = 90 -> 0 [] b = 180 -> -1 [] b = 270 -> 0

SinDeg(b) == CASE b = 0 -> 0 [] b = 90 -> 1 [] b = 180 -> 0 [] b = 270 -> -1

\* obspy's Stream.rotate("RT->NE"), when it does not raise: the first R and
\* the first T trace become N and E, n = t sin(baz) - r cos(baz) and
\* e = - t cos(baz) - r sin(baz).
RotateRTtoNE(stream, baz) ==
    LET ri == CHOOSE k \in 1..Len(stream) :
                  Last(stream[k].channel) = "R"
                  /\ \A j \in 1..(k - 1) : Last(stream[j].channel) # "R"
        ti == CHOOSE k \in 1..Len(stream) :
                  Last(stream[k].channel) = "T"
                  /\ \A j \in 1..(k - 1) : Last(stream[j].channel) # "T"
        r == stream[ri].data
        t == stream[ti].data
        rename(tr, c) == SubSeq(tr.channel, 1, Len(tr.channel) - 1) \o <<c>>
    IN [stream EXCEPT
           ![ri].data = [k \in 1..Len(r) |-> t[k] * SinDeg(baz) - r[k] * CosDeg(baz)],
           ![ri].channel = rename(stream[ri], "N"),
           ![ti].data = [k \in 1..Len(t) |-> -(t[k] * CosDeg(baz)) - r[k] * SinDeg(baz)],
           ![ti].channel = rename(stream[ti], "E")]

\* if "R" in components and "T" in components
NeedsRotation(components) == "R" \in Range(components) /\ "T" \in Range(components)

\* "prepare the final results": the metadata of the first key of adjsrcs
FinalAdjsrcs(stream, srcs) ==
    LET first == srcs[1].adj
    IN [k \in 1..Len(stream) |->
           _convert_trace_to_adj(stream[k],
               AdjointSource(first.adj_src_type, 0, 0, first.min_period,
                             first.max_period, ""))]

\* ---- the inputs of postprocess_adjsrc

MaxAdj == 3         \* adjoint sources passed in one call
MaxEventTime == 1   \* origin times are 0..MaxEventTime

\* Two vertical instruments, one radial, one transverse.
PostChannels ==
    {ChanId(Net, Sta, "00", BH("Z")), ChanId(Net, Sta, "10", BH("Z")),
     ChanId(Net, Sta, "00", BH("R")), ChanId(Net, Sta, "00", BH("T"))}

\* The samples of the adjoint source of a channel: none zero, no two channels alike.
AdjData(id) ==
    LET base == CASE id[3] = "10" -> 10
                  [] Last(id[4]) = "Z" -> 20
                  [] Last(id[4]) = "R" -> 30
                  [] OTHER -> 40
    IN [k \in 1..MaxNpts |-> base + k]

Adj(id, dt) ==
    [AdjointSource(AdjSrcType, 1, dt, 40, 100, Last(id[4]))
        EXCEPT !.adjoint_source = AdjData(id), !.network = id[1], !.station = id[2]]

\* adjsrcs as iteritems() yields it: no key twice, every order.
AdjsrcDicts ==
    {<<>>} \cup
    {[k \in 1..Len(ids) |-> [chan_id |-> ids[k], adj |-> Adj(ids[k], dt)]] :
        <<ids, dt>> \in Arrangements(PostChannels, MaxAdj) \X (1..MaxDt)}

\* The adjoint sources start before or after the raw synthetic does.
AdjStarttimes == {0, 6}

\* The raw synthetic: Z, N and E traces of MaxNpts samples on one time base.
RawSynthetics ==
    {[k \in 1..3 |-> NewTrace(ChanId(Net, Sta, "S3", MX(<<"Z", "N", "E">>[k])), t, dt,
                               Zeros(MaxNpts))] :
        <<t, dt>> \in {1, 5} \X (1..MaxDt)}

\* An event whose first origin is at 0 and whose preferred origin, if it has
\* one, is later.
Events ==
    {[preferred_origin |-> p, origins |-> <<[time |-> 0]>>] :
        p \in {None} \cup {[time |-> t] : t \in 1..MaxEventTime}}

Letters(srcs) == {Last(srcs[k].chan_id[4]) : k \in 1..Len(srcs)}

\* The weights of component c over the keys of srcs, in their order, each 1.
UnitWeights(srcs, c) ==
    LET keys == SelectSeq(srcs, LAMBDA e : Last(e.chan_id[4]) = c)
    IN [comp |-> c, weights |-> [k \in 1..Len(keys) |-> [chan_id |-> keys[k].chan_id, weight |-> 1]]]

\* The weight dicts tried with srcs: its components in the order Z, R, T and
\* in the order T, R, Z, and Z alone over II.AAK.00.BHZ.
WeightDictsFor(srcs) ==
    LET zrt == SelectSeq(<<"Z", "R", "T">>, LAMBDA c : c \in Letters(srcs))
        trz == SelectSeq(<<"T", "R", "Z">>, LAMBDA c : c \in Letters(srcs))
    IN {[items |-> [k \in 1..Len(zrt) |-> UnitWeights(srcs, zrt[k])]],
        [items |-> [k \in 1..Len(trz) |-> UnitWeights(srcs, trz[k])]],
        [items |-> <<[comp |-> "Z", weights |->
                        <<[chan_id |-> ChanId(Net, Sta, "00", BH("Z")), weight |-> 1]>>]>>]}

InitPost ==
    /\ adjsrcs \in AdjsrcDicts
    /\ adj_starttime \in AdjStarttimes
    /\ raw_synthetic \in RawSynthetics
    /\ event \in Events
    /\ sum_over_comp_flag \in BOOLEAN
    /\ weight_dict \in IF sum_over_comp_flag THEN {None} \cup WeightDictsFor(adjsrcs)
                        ELSE {None}
    /\ qpc = "call"
    /\ adj_stream = <<>>
    /\ time_offset = 0
    /\ baz_calls = <<>>
    /\ rotate_calls = <<>>
    /\ qresult = Pending

qinputs == <<adjsrcs, adj_starttime, raw_synthetic, event, sum_over_comp_flag, weight_dict>>

\* The event and station information, the adjoint sources as a stream, and
\* the time base of the first raw synthetic trace.
PostConvert ==
    /\ qpc = "call"
    /\ adj_stream' = [k \in 1..Len(adjsrcs) |->
                         _convert_adj_to_trace(adjsrcs[k].adj, adj_starttime,
                                               adjsrcs[k].chan_id)]
    /\ time_offset' = TimeOffset(raw_synthetic[1].starttime, EventTime(event))
    /\ qpc' = "pad"
    /\ UNCHANGED <<qinputs, baz_calls, rotate_calls, qresult>>
    /\ UNCHANGED <<avars, pvars, svars>>

\* zero padding
PostPad ==
    /\ qpc = "pad"
    /\ LET r == zero_padding_stream(adj_stream, raw_synthetic[1].starttime,
                                     InterpEndtime(raw_synthetic[1]))
       IN IF Raised(r)
          THEN qresult' = r /\ qpc' = "done" /\ UNCHANGED adj_stream
          ELSE adj_stream' = r.val /\ qpc' = "interpolate" /\ UNCHANGED qresult
    /\ UNCHANGED <<qinputs, time_offset, baz_calls, rotate_calls>>
    /\ UNCHANGED <<avars, pvars, svars>>

\* interpolate
PostInterpolate ==
    /\ qpc = "interpolate"
    /\ LET r == InterpolateStream(adj_stream, raw_synthetic[1].delta,
                                   raw_synthetic[1].starttime, Npts(raw_synthetic[1]))
       IN IF Raised(r)
          THEN qresult' = r /\ qpc' = "done" /\ UNCHANGED adj_stream
          ELSE adj_stream' = r.val /\ qpc' = "sum" /\ UNCHANGED qresult
    /\ UNCHANGED <<qinputs, time_offset, baz_calls, rotate_calls>>
    /\ UNCHANGED <<avars, pvars, svars>>

\* sum multiple instruments
PostSum ==
    /\ qpc = "sum"
    /\ IF ~sum_over_comp_flag
       THEN qpc' = "missing" /\ UNCHANGED <<adj_stream, qresult>>
       ELSE IF weight_dict = None
       THEN qresult' = Raise("ValueError") /\ qpc' = "done" /\ UNCHANGED adj_stream
       ELSE LET r == sum_adj_on_component(adj_stream, weight_dict.items)
            IN IF Raised(r)
               THEN qresult' = r /\ qpc' = "done" /\ UNCHANGED adj_stream
               ELSE adj_stream' = r.val /\ qpc' = "missing" /\ UNCHANGED qresult
    /\ UNCHANGED <<qinputs, time_offset, baz_calls, rotate_calls>>
    /\ UNCHANGED <<avars, pvars, svars>>

\* add zero trace for missing components
PostMissing ==
    /\ qpc = "missing"
    /\ LET r == AddMissingComponents(adj_stream)
       IN IF Raised(r)
          THEN qresult' = r /\ qpc' = "done" /\ UNCHANGED adj_stream
          ELSE adj_stream' = r.val /\ qpc' = "rotate" /\ UNCHANGED qresult
    /\ UNCHANGED <<qinputs, time_offset, baz_calls, rotate_calls>>
    /\ UNCHANGED <<avars, pvars, svars>>

\* rotate: calculate_baz returns some back azimuth; Stream.rotate, if it is
\* called, rotates or raises, and what it raises is printed and dropped.
PostRotate ==
    /\ qpc = "rotate"
    /\ \E baz \in BackAzimuths, rotate_raises \in BOOLEAN :
          /\ baz_calls' = Append(baz_calls, baz)
          /\ IF NeedsRotation(Components(adj_stream))
             THEN /\ rotate_calls' = Append(rotate_calls, [raised |-> rotate_raises])
                  /\ adj_stream' = IF rotate_raises THEN adj_stream
                                   ELSE RotateRTtoNE(adj_stream, baz)
             ELSE UNCHANGED <<rotate_calls, adj_stream>>
    /\ qpc' = "final"
    /\ UNCHANGED <<qinputs, time_offset, qresult>>
    /\ UNCHANGED <<avars, pvars, svars>>

\* prepare the final results and return them with time_offset
PostReturn ==
    /\ qpc = "final"
    /\ qresult' = IF Len(adjsrcs) = 0 THEN Raise("IndexError")
                  ELSE Return([final_adjsrcs |-> FinalAdjsrcs(adj_stream, adjsrcs),
                               time_offset |-> time_offset])
    /\ qpc' = "done"
    /\ UNCHANGED <<qinputs, adj_stream, time_offset, baz_calls, rotate_calls>>
    /\ UNCHANGED <<avars, pvars, svars>>

NextPost ==
    PostConvert \/ PostPad \/ PostInterpolate \/ PostSum
        \/ PostMissing \/ PostRotate \/ PostReturn

StartPost == InitPost /\ IdleAgg /\ IdlePad /\ IdleSum

SpecPost == StartPost /\ [][NextPost]_vars

\* ---- properties of postprocess_adjsrc

Returned == qpc = "done" /\ qresult.raised = "no"

AllZero(data) == \A k \in 1..Len(data) : data[k] = 0

\* The traces carry pairwise distinct component letters out of Z, R and T.
DistinctZRT(stream) ==
    /\ \A k \in 1..Len(stream) : Last(stream[k].channel) \in {"Z", "R", "T"}
    /\ \A j, k \in 1..Len(stream) :
          j # k => Last(stream[j].channel) # Last(stream[k].channel)

\* new is old, its traces untouched, followed by all-zero traces on the time
\* base of old's traces, and holds one trace for each of Z, R and T.
FilledFrom(new, old) ==
    /\ Len(new) = 3
    /\ \A c \in {"Z", "R", "T"} : \E k \in 1..Len(new) : Last(new[k].channel) = c
    /\ \A k \in 1..Len(old) : new[k] = old[k]
    /\ \A k \in (Len(old) + 1)..Len(new) :
          /\ AllZero(new[k].data)
          /\ \A j \in 1..Len(old) :
                /\ new[k].starttime = old[j].starttime
                /\ new[k].delta = old[j].delta
                /\ Npts(new[k]) = Npts(old[j])

\* C2: when the stream that reaches the missing-component step is not empty
\* and its traces carry pairwise distinct letters out of Z, R and T, the step
\* does not raise and leaves one trace for each of Z, R and T: the traces
\* that were there, unchanged, and all-zero traces with their start time,
\* sample interval and sample count.
C2_MissingComponentFill ==
    [][(qpc = "missing" /\ Len(adj_stream) > 0 /\ DistinctZRT(adj_stream))
          => (qpc' = "rotate" /\ FilledFrom(adj_stream', adj_stream))]_vars

\* C2 witness: only II.AAK.00.BHZ and II.AAK.00.BHR were passed (in that
\* order, no summation) and the step has appended an all-zero BHT to them.
C2_Witness ==
    /\ qpc = "rotate" /\ ~sum_over_comp_flag
    /\ Len(adjsrcs) = 2
    /\ adjsrcs[1].chan_id = ChanId(Net, Sta, "00", BH("Z"))
    /\ adjsrcs[2].chan_id = ChanId(Net, Sta, "00", BH("R"))
    /\ Len(adj_stream) = 3
    /\ adj_stream[3].channel = BH("T") /\ AllZero(adj_stream[3].data)
    /\ adj_stream[3].starttime = adj_stream[1].starttime
    /\ ~AllZero(adj_stream[1].data) /\ ~AllZero(adj_stream[2].data)

\* The input holds a Z component and neither R nor T.
OnlyZInput == Len(adjsrcs) > 0 /\ Letters(adjsrcs) = {"Z"}

FinalComponents == [k \in 1..Len(qresult.val.final_adjsrcs) |-> qresult.val.final_adjsrcs[k].component]

\* C6 (as claimed): with only a Z component passed, what is returned is
\* unrotated, and neither the back azimuth nor the rotation was attempted.
C6_NoRotationWhenOnlyZ ==
    (Returned /\ OnlyZInput) =>
        /\ baz_calls = <<>>
        /\ rotate_calls = <<>>
        /\ \A k \in 1..Len(FinalComponents) : FinalComponents[k] \in {"Z", "R", "T"}

\* C6 (amended): with only a Z component passed, zero R and T traces are
\* added, the back azimuth is computed once and the rotation is attempted
\* once; what is returned is Z followed by two all-zero horizontals, N and E
\* when the rotation succeeded and R and T when it raised.
C6_OnlyZStillRotated ==
    (Returned /\ OnlyZInput) =>
        /\ Len(baz_calls) = 1
        /\ Len(rotate_calls) = 1
        /\ FinalComponents = IF rotate_calls[1].raised THEN <<"Z", "R", "T">>
                             ELSE <<"Z", "N", "E">>
        /\ AllZero(qresult.val.final_adjsrcs[2].adjoint_source)
        /\ AllZero(qresult.val.final_adjsrcs[3].adjoint_source)

\* C6 witness: only II.AAK.00.BHZ was passed and Z, N and E were returned.
C6_Witness ==
    /\ Returned /\ OnlyZInput /\ Len(adjsrcs) = 1 /\ ~sum_over_comp_flag
    /\ FinalComponents = <<"Z", "N", "E">>
    /\ Len(baz_calls) = 1 /\ Len(rotate_calls) = 1
    /\ ~AllZero(qresult.val.final_adjsrcs[1].adjoint_source)

\* C8: the time_offset returned is the start time of the first raw synthetic
\* trace minus the time of the event's origin (its preferred origin, else
\* its first), whatever the other arguments are.
C8_TimeOffset ==
    Returned =>
        qresult.val.time_offset =
            raw_synthetic[1].starttime
            - (IF event.preferred_origin = None THEN event.origins[1].time
               ELSE event.preferred_origin.time)

\* C8 witness: origin at 0, raw synthetic starting at 5, adjoint sources
\* starting at 6 and summed with weights: time_offset 5 is returned.
C8_Witness ==
    /\ Returned
    /\ event.preferred_origin = None /\ event.origins[1].time = 0
    /\ raw_synthetic[1].starttime = 5
    /\ adj_starttime = 6 /\ sum_over_comp_flag
    /\ qresult.val.time_offset = 5

\* Two of the adjoint sources passed are of the same component.
DuplicateInput ==
    \E j, k \in 1..Len(adjsrcs) :
        j # k /\ Last(adjsrcs[j].chan_id[4]) = Last(adjsrcs[k].chan_id[4])

\* C10: without summation, two adjoint sources of one component make the
\* call end in the ValueError of the missing-component step; and whatever
\* is returned holds no component twice.
C10_NoDuplicateComponents ==
    /\ (qpc = "done" /\ ~sum_over_comp_flag /\ DuplicateInput)
          => qresult.raised = "ValueError"
    /\ Returned =>
          \A j, k \in 1..Len(FinalComponents) :
              j # k => FinalComponents[j] # FinalComponents[k]

\* C10 witness: II.AAK.00.BHZ and II.AAK.10.BHZ were passed without
\* summation and the call has raised ValueError with both in the stream.
C10_Witness ==
    /\ qpc = "done" /\ ~sum_over_comp_flag /\ qresult.raised = "ValueError"
    /\ {adjsrcs[k].chan_id : k \in 1..Len(adjsrcs)}
          = {ChanId(Net, Sta, "00", BH("Z")), ChanId(Net, Sta, "10", BH("Z"))}
    /\ Len(adj_stream) = 2
    /\ Last(adj_stream[1].channel) = "Z" /\ Last(adj_stream[2].channel) = "Z"

====
